---- MODULE Spec2Model ----
(***************************************************************************)
(* A model of splitNSP-GUI: the split engine (src/splitNSP.py, split),     *)
(* the queue reporter and the worker thread (src/async_split.py) and the   *)
(* polling consumer of the GUI (src/splitNSP-gui.py, main).                *)
(*                                                                         *)
(* Sizes are scaled: the source's PART_SIZE is 0xFFFF0000 and CHUNK_SIZE   *)
(* 0x8000, which TLC's 32-bit integers cannot hold, so PART_SIZE and       *)
(* CHUNK_SIZE are small bounds here.  The code uses the two numbers only   *)
(* through min, <, <=, - and ceil(a / b); as in the source PART_SIZE is a  *)
(* multiple of CHUNK_SIZE; nothing below relies on it.                     *)
(* math.ceil(size / PART_SIZE) is a float division in the source; it is    *)
(* exact for every size below 2^52 bytes and is modelled as the integer    *)
(* ceiling.                                                                *)
(*                                                                         *)
(* Strings that the code computes (the part file names) are sequences of   *)
(* character codes; time is counted in units of 10 ms.                     *)
(*                                                                         *)
(* Fault model: os.makedirs, open and read/write may raise OSError at any  *)
(* call; the metadata queries (is_file, exists, is_dir, listdir, getsize,  *)
(* disk_usage) answer, and nothing but the worker touches the files.       *)
(***************************************************************************)
EXTENDS Integers, Sequences, FiniteSets, TLC

\* ---------------------------------------------------------------- bounds
PART_SIZE == 4
CHUNK_SIZE == 2
MaxRuns == 2
MaxTime == 27

\* 0.13 s, the queue reporter's rate limit, in units of 10 ms
PROGRESS_PERIOD == 13

MaxFileSize == 2 * PART_SIZE + 1
TimeSteps == {0, 7, 13}

VARIABLES
    \* the file system
    input_kind,                 \* "file", "dir" or "missing": what input_file_path names
    input_file_size,            \* its size in bytes when it is a file
    free,                       \* free bytes on the input's volume
    out_kind,                   \* "missing", "file" or "dir": what output_dir names
    out_files,                  \* the directory's entries: name -> content
    \* the worker thread: SplitterThread.run and the locals of split
    pc,
    exc,                        \* the exception in flight
    total_parts, i, total_written, this_part_size, this_part_written,
    in_open, in_pos,            \* the input handle and its read cursor
    out_open,                   \* the name of the open output file, or NoFile
    archive_ok,                 \* what _try_set_archive_bit returned
    last_file_progress_time, now,
    queue,                      \* SplitterState.queue
    \* the GUI
    split_state, cpc, text_above_progressbar, progressbar_progress,
    \* history
    produced,                   \* every event put on the queue in this run
    observed,                   \* every event the consumer got in this run
    pre_out_kind, pre_out_files,\* the output directory when the run started
    forwarded_at,               \* the times of the FileProgress events of this run
    runs

fs == <<input_kind, input_file_size, free, out_kind, out_files>>
locals == <<total_parts, i, total_written, this_part_size, this_part_written>>
handles == <<in_open, in_pos, out_open>>
clock == <<last_file_progress_time, now>>
events == <<queue, produced>>
worker == <<pc, exc, locals, handles, archive_ok, clock>>
gui == <<split_state, cpc, text_above_progressbar, progressbar_progress, observed>>
history == <<pre_out_kind, pre_out_files, forwarded_at, runs>>
vars == <<fs, worker, events, gui, history>>

\* ---------------------------------------------------------------- values
Min(a, b) == IF a <= b THEN a ELSE b

NoFile == <<>>
NoExc == [type |-> "None", msg |-> ""]
ValueError(m) == [type |-> "ValueError", msg |-> m]
OSError(m) == [type |-> "OSError", msg |-> m]

MSG_NOT_A_FILE == "is not a file"
MSG_NOT_A_FOLDER == "is not a folder"
MSG_NOT_EMPTY == "is not empty"
MSG_NO_SPACE == "Not enough free space to run. Will require twice the space as the NSP file"
MSG_UNDER_4GIB == "This NSP is under 4GiB and does not need to be split."

\* the bytes of the input file: byte k carries its own position, so that a
\* lost, repeated or misplaced byte shows in the output
InputContent == [k \in 1..input_file_size |-> k]

\* the events of async_split.py
InitialInfoEvent(tp, tb) == [kind |-> "InitialInfo", total_parts |-> tp, total_bytes |-> tb]
\* mutant: the part number counted from one, as the GUI prints it
StartPartEventOneBased(n, tp) ==
    [kind |-> "StartPart", part_number |-> n + 1, total_parts |-> tp]
StartPartEvent(n, tp) == [kind |-> "StartPart", part_number |-> n, total_parts |-> tp]
FinishPartEvent(n, tp) == [kind |-> "FinishPart", part_number |-> n, total_parts |-> tp]
FileProgressEvent(w, tb) == [kind |-> "FileProgress", written_bytes |-> w, total_bytes |-> tb]
\* mutant: the type's name where the message belongs
ExceptionExitEventTypeAsMessage(e) ==
    [kind |-> "ExceptionExit", exc_type |-> e.type, exc_str |-> e.type,
     exc_repr |-> <<e.type, e.msg>>]
ExceptionExitEvent(e) ==
    [kind |-> "ExceptionExit", exc_type |-> e.type, exc_str |-> e.msg,
     exc_repr |-> <<e.type, e.msg>>]
NormalExitEvent == [kind |-> "NormalExit"]

\* ---------------------------------------------------------------- pure parts of split
\* f'{i:02}': the decimal digits of i, padded with '0' to two characters
RECURSIVE DecimalDigits(_)
DecimalDigits(n) ==
    IF n < 10 THEN <<48 + n>> ELSE Append(DecimalDigits(n \div 10), 48 + (n % 10))

RECURSIVE ZeroPad(_, _)
ZeroPad(s, width) == IF Len(s) >= width THEN s ELSE ZeroPad(<<48>> \o s, width)

PartName(n) == ZeroPad(DecimalDigits(n), 2)

\* mutant: the quotient rounded down
TotalPartsFloor(size) == size \div PART_SIZE

\* math.ceil(input_file_size / PART_SIZE)
TotalParts(size) == (size + PART_SIZE - 1) \div PART_SIZE

\* mutant: the rest of the file, not capped at PART_SIZE
ThisPartSizeUncapped(size, written) == size - written

\* min(PART_SIZE, input_file_size - total_written)
ThisPartSize(size, written) == Min(PART_SIZE, size - written)

\* mutant: the chunk is cut to what is written, not to what is left
ThisChunkSizeOfWritten(part_size, part_written) == Min(CHUNK_SIZE, part_written)

\* min(CHUNK_SIZE, this_part_size - this_part_written)
ThisChunkSize(part_size, part_written) == Min(CHUNK_SIZE, part_size - part_written)

\* in_file.read(n) at cursor pos: the next n bytes, fewer at the end of the file
Read(content, pos, n) == SubSeq(content, pos + 1, Min(pos + n, Len(content)))

\* mutant: room for one copy is taken to be enough
NotEnoughSpaceForOneCopy(free_bytes, size) == free_bytes < size

\* info.free < input_file_size * 2
NotEnoughSpace(free_bytes, size) == free_bytes < size * 2

\* input_file_size <= PART_SIZE
NoSplitNeeded(size) == size <= PART_SIZE

\* mutant: any time at all since the last forwarded event is enough
ProgressDueAnyElapsed(curr_time, last_time) == curr_time - last_time > 0

\* curr_time - self.last_file_progress_time >= 0.13
ProgressDue(curr_time, last_time) == curr_time - last_time >= PROGRESS_PERIOD

\* mutant: except ValueError
CatchesValueError(e) == e.type = "ValueError"

\* except BaseException: every exception is caught
Catches(e) == TRUE

\* ---------------------------------------------------------------- the queue
\* mutant: a last-in first-out queue
put_nowait_lifo(ev) ==
    /\ queue' = <<ev>> \o queue
    /\ produced' = Append(produced, ev)

put_nowait(ev) ==
    /\ queue' = Append(queue, ev)
    /\ produced' = Append(produced, ev)

\* mutant: the files are opened without with blocks, an exception closes nothing
RaiseLeavingOpen(e) ==
    /\ pc' = "raised"
    /\ exc' = e
    /\ UNCHANGED <<in_open, out_open>>

\* leaving the with blocks on an exception closes both handles
Raise(e) ==
    /\ pc' = "raised"
    /\ exc' = e
    /\ in_open' = FALSE
    /\ out_open' = NoFile

\* ---------------------------------------------------------------- initial states
\* a directory entry the splitter did not write, named "x"
ForeignName == <<120>>
EmptyDir == [n \in {} |-> <<>>]
OutDirInits ==
    { <<"missing", EmptyDir>>, <<"file", EmptyDir>>, <<"dir", EmptyDir>>,
      <<"dir", [n \in {ForeignName} |-> <<7>>]>>,
      <<"dir", [n \in {PartName(0)} |-> <<9, 9>>]>> }

Init ==
    /\ input_kind \in {"file", "dir", "missing"}
    /\ input_file_size \in (IF input_kind = "file" THEN 0..MaxFileSize ELSE {0})
    /\ free \in (IF input_kind = "file"
                 THEN {f \in {2 * input_file_size - 1, 2 * input_file_size} : f >= 0}
                 ELSE {0})
    /\ \E o \in OutDirInits : out_kind = o[1] /\ out_files = o[2]
    /\ pc = "not_started"
    /\ exc = NoExc
    /\ total_parts = 0 /\ i = 0 /\ total_written = 0
    /\ this_part_size = 0 /\ this_part_written = 0
    /\ in_open = FALSE /\ in_pos = 0 /\ out_open = NoFile
    /\ archive_ok = FALSE
    /\ last_file_progress_time = 0 /\ now = 0
    /\ queue = <<>> /\ produced = <<>> /\ observed = <<>>
    /\ split_state = "None" /\ cpc = "idle"
    /\ text_above_progressbar = <<"">>
    /\ progressbar_progress = <<0, 1>>
    /\ pre_out_kind = out_kind /\ pre_out_files = out_files
    /\ forwarded_at = <<>>
    /\ runs = 0

\* ---------------------------------------------------------------- the worker thread
\* SplitterThread.run: builds the reporter, then calls split
SplitterThread_run ==
    /\ pc = "run"
    /\ last_file_progress_time' = now
    /\ pc' = "check_input"
    /\ UNCHANGED <<fs, exc, locals, handles, archive_ok, now, events, gui, history>>

\* mutant: the input is not checked
split_check_input_unchecked ==
    /\ pc = "check_input"
    /\ pc' = "check_output"
    /\ UNCHANGED <<fs, exc, locals, handles, archive_ok, clock, events, gui, history>>

\* if not input_file_path.is_file(): raise ValueError
split_check_input ==
    /\ pc = "check_input"
    /\ IF input_kind # "file"
       THEN Raise(ValueError(MSG_NOT_A_FILE))
       ELSE pc' = "check_output" /\ UNCHANGED <<exc, in_open, out_open>>
    /\ UNCHANGED <<fs, locals, in_pos, archive_ok, clock, events, gui, history>>

\* mutant: part files of an earlier run do not count as content of the directory
split_check_output_over_parts ==
    /\ pc = "check_output"
    /\ \/ /\ out_kind = "missing"
          /\ out_kind' = "dir"
          /\ out_files' = EmptyDir
          /\ pc' = "check_space"
          /\ UNCHANGED <<exc, in_open, out_open>>
       \/ /\ out_kind = "missing"
          /\ Raise(OSError("makedirs"))
          /\ UNCHANGED <<out_kind, out_files>>
       \/ /\ out_kind = "file"
          /\ Raise(ValueError(MSG_NOT_A_FOLDER))
          /\ UNCHANGED <<out_kind, out_files>>
       \/ /\ out_kind = "dir"
          /\ ForeignName \in DOMAIN out_files
          /\ Raise(ValueError(MSG_NOT_EMPTY))
          /\ UNCHANGED <<out_kind, out_files>>
       \/ /\ out_kind = "dir"
          /\ ForeignName \notin DOMAIN out_files
          /\ pc' = "check_space"
          /\ UNCHANGED <<exc, in_open, out_open, out_kind, out_files>>
    /\ UNCHANGED <<input_kind, input_file_size, free, locals, in_pos, archive_ok,
                   clock, events, gui, history>>

\* mutant: an existing directory is taken as it is, empty or not
split_check_output_any_dir ==
    /\ pc = "check_output"
    /\ \/ /\ out_kind = "missing"
          /\ out_kind' = "dir"
          /\ out_files' = EmptyDir
          /\ pc' = "check_space"
          /\ UNCHANGED <<exc, in_open, out_open>>
       \/ /\ out_kind = "missing"
          /\ Raise(OSError("makedirs"))
          /\ UNCHANGED <<out_kind, out_files>>
       \/ /\ out_kind = "file"
          /\ Raise(ValueError(MSG_NOT_A_FOLDER))
          /\ UNCHANGED <<out_kind, out_files>>
       \/ /\ out_kind = "dir"
          /\ pc' = "check_space"
          /\ UNCHANGED <<exc, in_open, out_open, out_kind, out_files>>
    /\ UNCHANGED <<input_kind, input_file_size, free, locals, in_pos, archive_ok,
                   clock, events, gui, history>>

\* if not output_dir.exists(): os.makedirs(output_dir); else the two checks
split_check_output ==
    /\ pc = "check_output"
    /\ \/ /\ out_kind = "missing"
          /\ out_kind' = "dir"
          /\ out_files' = EmptyDir
          /\ pc' = "check_space"
          /\ UNCHANGED <<exc, in_open, out_open>>
       \/ /\ out_kind = "missing"
          /\ Raise(OSError("makedirs"))
          /\ UNCHANGED <<out_kind, out_files>>
       \/ /\ out_kind = "file"
          /\ Raise(ValueError(MSG_NOT_A_FOLDER))
          /\ UNCHANGED <<out_kind, out_files>>
       \/ /\ out_kind = "dir"
          /\ DOMAIN out_files # {}
          /\ Raise(ValueError(MSG_NOT_EMPTY))
          /\ UNCHANGED <<out_kind, out_files>>
       \/ /\ out_kind = "dir"
          /\ DOMAIN out_files = {}
          /\ pc' = "check_space"
          /\ UNCHANGED <<exc, in_open, out_open, out_kind, out_files>>
    /\ UNCHANGED <<input_kind, input_file_size, free, locals, in_pos, archive_ok,
                   clock, events, gui, history>>

\* if info.free < input_file_size * 2: raise ValueError
split_check_space ==
    /\ pc = "check_space"
    /\ IF NotEnoughSpace(free, input_file_size)
       THEN Raise(ValueError(MSG_NO_SPACE))
       ELSE pc' = "check_size" /\ UNCHANGED <<exc, in_open, out_open>>
    /\ UNCHANGED <<fs, locals, in_pos, archive_ok, clock, events, gui, history>>

\* if input_file_size <= PART_SIZE: raise ValueError
split_check_size ==
    /\ pc = "check_size"
    /\ IF NoSplitNeeded(input_file_size)
       THEN Raise(ValueError(MSG_UNDER_4GIB))
       ELSE pc' = "initial_info" /\ UNCHANGED <<exc, in_open, out_open>>
    /\ UNCHANGED <<fs, locals, in_pos, archive_ok, clock, events, gui, history>>

\* total_parts = ...; reporter.report_initial_info(...); total_written = 0
split_initial_info ==
    /\ pc = "initial_info"
    /\ total_parts' = TotalParts(input_file_size)
    /\ put_nowait(InitialInfoEvent(TotalParts(input_file_size), input_file_size))
    /\ total_written' = 0
    /\ pc' = "open_input"
    /\ UNCHANGED <<fs, exc, i, this_part_size, this_part_written, handles,
                   archive_ok, clock, gui, history>>

\* with open(input_file_path, 'rb') as in_file
split_open_input ==
    /\ pc = "open_input"
    /\ \/ /\ in_open' = TRUE
          /\ in_pos' = 0
          /\ i' = 0
          /\ pc' = "for"
          /\ UNCHANGED <<exc, out_open>>
       \/ /\ Raise(OSError("open input"))
          /\ UNCHANGED <<in_pos, i>>
    /\ UNCHANGED <<fs, total_parts, total_written, this_part_size, this_part_written,
                   archive_ok, clock, events, gui, history>>

\* for i in range(total_parts): report_start_part; this_part_size; this_part_written.
\* When the range is exhausted the with block closes the input file.
split_for ==
    /\ pc = "for"
    /\ IF i < total_parts
       THEN /\ put_nowait(StartPartEvent(i, total_parts))
            /\ this_part_size' = ThisPartSize(input_file_size, total_written)
            /\ this_part_written' = 0
            /\ pc' = "open_output"
            /\ UNCHANGED in_open
       ELSE /\ in_open' = FALSE
            /\ pc' = "archive_bit"
            /\ UNCHANGED <<events, this_part_size, this_part_written>>
    /\ UNCHANGED <<fs, exc, total_parts, i, total_written, in_pos, out_open,
                   archive_ok, clock, gui, history>>

\* with open(output_dir / f'{i:02}', 'wb') as out_file: creates or truncates
split_open_output ==
    /\ pc = "open_output"
    /\ \/ /\ out_files' = [n \in DOMAIN out_files \cup {PartName(i)} |->
                              IF n = PartName(i) THEN <<>> ELSE out_files[n]]
          /\ out_open' = PartName(i)
          /\ pc' = "while"
          /\ UNCHANGED <<exc, in_open>>
       \/ /\ Raise(OSError("open output"))
          /\ UNCHANGED out_files
    /\ UNCHANGED <<input_kind, input_file_size, free, out_kind, locals, in_pos,
                   archive_ok, clock, events, gui, history>>

\* QueueSplitReporter.report_file_progress at time curr_time
report_file_progress(written_bytes, total_bytes, curr_time) ==
    IF ProgressDue(curr_time, last_file_progress_time)
    THEN /\ last_file_progress_time' = curr_time
         /\ put_nowait(FileProgressEvent(written_bytes, total_bytes))
         /\ forwarded_at' = Append(forwarded_at, curr_time)
    ELSE UNCHANGED <<last_file_progress_time, events, forwarded_at>>

\* one turn of: while this_part_written < this_part_size.  The read and the write
\* take d units of time; either may fail, the write after k of the bytes.
split_copy_chunk ==
    /\ pc = "while"
    /\ this_part_written < this_part_size
    /\ LET this_chunk_size == ThisChunkSize(this_part_size, this_part_written)
           data == Read(InputContent, in_pos, this_chunk_size)
       IN \/ \E d \in TimeSteps :
                /\ now + d <= MaxTime
                /\ now' = now + d
                /\ in_pos' = in_pos + Len(data)
                /\ out_files' = [out_files EXCEPT ![out_open] = @ \o data]
                /\ this_part_written' = this_part_written + this_chunk_size
                /\ total_written' = total_written + this_chunk_size
                /\ report_file_progress(total_written + this_chunk_size,
                                        input_file_size, now + d)
                /\ UNCHANGED <<pc, exc, in_open, out_open>>
          \/ /\ Raise(OSError("read"))
             /\ UNCHANGED <<out_files, in_pos, this_part_written, total_written,
                            clock, events, forwarded_at>>
          \/ \E k \in 0..(Len(data) - 1) :
                /\ Raise(OSError("write"))
                /\ in_pos' = in_pos + Len(data)
                /\ out_files' = [out_files EXCEPT ![out_open] = @ \o SubSeq(data, 1, k)]
                /\ UNCHANGED <<this_part_written, total_written, clock, events,
                               forwarded_at>>
    /\ UNCHANGED <<input_kind, input_file_size, free, out_kind, total_parts, i,
                   this_part_size, archive_ok, gui, pre_out_kind, pre_out_files, runs>>

\* mutant: the output file is left open when its part is complete
split_close_output_leaking ==
    /\ pc = "while"
    /\ ~(this_part_written < this_part_size)
    /\ pc' = "finish_part"
    /\ UNCHANGED <<fs, exc, locals, handles, archive_ok, clock, events, gui, history>>

\* the while condition fails: the inner with block closes the output file
split_close_output ==
    /\ pc = "while"
    /\ ~(this_part_written < this_part_size)
    /\ out_open' = NoFile
    /\ pc' = "finish_part"
    /\ UNCHANGED <<fs, exc, locals, in_open, in_pos, archive_ok, clock, events,
                   gui, history>>

\* reporter.report_finish_part(i, total_parts), and the next i
split_finish_part ==
    /\ pc = "finish_part"
    /\ put_nowait(FinishPartEvent(i, total_parts))
    /\ i' = i + 1
    /\ pc' = "for"
    /\ UNCHANGED <<fs, exc, total_parts, total_written, this_part_size,
                   this_part_written, handles, archive_ok, clock, gui, history>>

\* mutant: a failure of the attribute step is not caught
split_archive_bit_raising ==
    /\ pc = "archive_bit"
    /\ \/ /\ archive_ok' = TRUE
          /\ pc' = "returned"
          /\ UNCHANGED <<exc, handles>>
       \/ /\ archive_ok' = FALSE
          /\ Raise(OSError("archive bit"))
          /\ UNCHANGED in_pos
    /\ UNCHANGED <<fs, locals, clock, events, gui, history>>

\* _try_set_archive_bit(output_dir): True or False, which split drops; no
\* reporter method is called
split_archive_bit ==
    /\ pc = "archive_bit"
    /\ \E ok \in BOOLEAN : archive_ok' = ok
    /\ pc' = "returned"
    /\ UNCHANGED <<fs, exc, locals, handles, clock, events, gui, history>>

\* self.queue.put_nowait(NormalExitEvent())
run_normal_exit ==
    /\ pc = "returned"
    /\ put_nowait(NormalExitEvent)
    /\ pc' = "terminated"
    /\ UNCHANGED <<fs, exc, locals, handles, archive_ok, clock, gui, history>>

\* except BaseException as e: self.queue.put_nowait(ExceptionExitEvent(...))
run_exception_exit ==
    /\ pc = "raised"
    /\ IF Catches(exc)
       THEN put_nowait(ExceptionExitEvent(exc)) /\ pc' = "terminated"
       ELSE pc' = "crashed" /\ UNCHANGED events
    /\ UNCHANGED <<fs, exc, locals, handles, archive_ok, clock, gui, history>>

\* ---------------------------------------------------------------- the GUI
\* mutant: Start launches a worker whether or not one is tracked
start_splitting_unguarded ==
    /\ cpc = "idle"
    /\ runs < MaxRuns
    /\ split_state' = "Some"
    /\ queue' = <<>>
    /\ produced' = <<>>
    /\ observed' = <<>>
    /\ pc' = "run"
    /\ exc' = NoExc
    /\ total_parts' = 0 /\ i' = 0 /\ total_written' = 0
    /\ this_part_size' = 0 /\ this_part_written' = 0
    /\ in_pos' = 0
    /\ archive_ok' = FALSE
    /\ pre_out_kind' = out_kind
    /\ pre_out_files' = out_files
    /\ forwarded_at' = <<>>
    /\ runs' = runs + 1
    /\ UNCHANGED <<fs, in_open, out_open, clock, cpc, text_above_progressbar,
                   progressbar_progress>>

\* the Start button: start_splitting, and start_splitter_thread with a fresh
\* SimpleQueue.  The callback runs on the GUI thread, between two polls.
start_splitting ==
    /\ cpc = "idle"
    /\ IF split_state # "None"
       THEN UNCHANGED vars
       ELSE /\ runs < MaxRuns
            /\ split_state' = "Some"
            /\ queue' = <<>>
            /\ produced' = <<>>
            /\ observed' = <<>>
            /\ pc' = "run"
            /\ exc' = NoExc
            /\ total_parts' = 0 /\ i' = 0 /\ total_written' = 0
            /\ this_part_size' = 0 /\ this_part_written' = 0
            /\ in_pos' = 0
            /\ archive_ok' = FALSE
            /\ pre_out_kind' = out_kind
            /\ pre_out_files' = out_files
            /\ forwarded_at' = <<>>
            /\ runs' = runs + 1
            /\ UNCHANGED <<fs, in_open, out_open, clock, cpc, text_above_progressbar,
                           progressbar_progress>>

\* update_state up to the loop: returns at once when split_state is None
update_state_poll ==
    /\ cpc = "idle"
    /\ IF split_state = "None"
       THEN UNCHANGED vars
       ELSE /\ cpc' = "loop"
            /\ UNCHANGED <<fs, worker, events, split_state, text_above_progressbar,
                           progressbar_progress, observed, history>>

\* which case of the match statement takes the event.  `case aspl.NormalExitEvent:`
\* is a value pattern: it compares the event with the class object, and the
\* dataclass __eq__ of an instance answers False, so no case takes a
\* NormalExitEvent instance.
MatchCase(ev) ==
    IF ev.kind = "NormalExit" THEN "no case" ELSE ev.kind

\* one turn of the while True loop: get_nowait and the match statement
update_state_get ==
    /\ cpc = "loop"
    /\ IF queue = <<>>
       THEN /\ cpc' = "idle"
            /\ UNCHANGED <<queue, observed, split_state, text_above_progressbar,
                           progressbar_progress>>
       ELSE LET ev == Head(queue)
                case == MatchCase(ev)
            IN /\ queue' = Tail(queue)
               /\ observed' = Append(observed, ev)
               /\ text_above_progressbar' =
                     CASE case = "InitialInfo" -> <<"Splitting">>
                       [] case = "StartPart" ->
                             <<"Splitting (part ", ev.part_number + 1, " of ",
                               ev.total_parts, ")">>
                       [] case = "ExceptionExit" -> <<"Failed to split">>
                       [] case = "NormalExit" -> <<"Done">>
                       [] OTHER -> text_above_progressbar
               /\ progressbar_progress' =
                     CASE case = "InitialInfo" -> <<0, 1>>
                       [] case = "FileProgress" -> <<ev.written_bytes, ev.total_bytes>>
                       [] case = "NormalExit" -> <<1, 1>>
                       [] OTHER -> progressbar_progress
               /\ split_state' =
                     IF case \in {"ExceptionExit", "NormalExit"} THEN "None"
                     ELSE split_state
               /\ cpc' = IF case \in {"ExceptionExit", "NormalExit"} THEN "idle" ELSE "loop"
    /\ UNCHANGED <<fs, worker, produced, history>>

\* the program is launched again after the process has ended (its worker thread
\* is over): main builds a fresh GUI with split_state = None; the files stay
main_again ==
    /\ pc = "terminated"
    /\ cpc = "idle"
    /\ runs < MaxRuns
    /\ split_state' = "None"
    /\ text_above_progressbar' = <<"">>
    /\ progressbar_progress' = <<0, 1>>
    /\ queue' = <<>> /\ produced' = <<>> /\ observed' = <<>>
    /\ pc' = "not_started"
    /\ exc' = NoExc
    /\ total_parts' = 0 /\ i' = 0 /\ total_written' = 0
    /\ this_part_size' = 0 /\ this_part_written' = 0
    /\ in_pos' = 0
    /\ archive_ok' = FALSE
    /\ pre_out_kind' = out_kind
    /\ pre_out_files' = out_files
    /\ forwarded_at' = <<>>
    /\ UNCHANGED <<fs, in_open, out_open, clock, cpc, runs>>

\* ---------------------------------------------------------------- specification
\* the steps of the worker thread
worker_step ==
    \/ SplitterThread_run
    \/ split_check_input
    \/ split_check_output
    \/ split_check_space
    \/ split_check_size
    \/ split_initial_info
    \/ split_open_input
    \/ split_for
    \/ split_open_output
    \/ split_copy_chunk
    \/ split_close_output
    \/ split_finish_part
    \/ split_archive_bit
    \/ run_normal_exit
    \/ run_exception_exit

Next ==
    \/ main_again
    \/ start_splitting
    \/ SplitterThread_run
    \/ split_check_input
    \/ split_check_output
    \/ split_check_space
    \/ split_check_size
    \/ split_initial_info
    \/ split_open_input
    \/ split_for
    \/ split_open_output
    \/ split_copy_chunk
    \/ split_close_output
    \/ split_finish_part
    \/ split_archive_bit
    \/ run_normal_exit
    \/ run_exception_exit
    \/ update_state_poll
    \/ update_state_get

Spec == Init /\ [][Next]_vars

\* the operating system schedules the started thread, and each blocking file
\* operation returns: a worker step that can be taken is taken
FairSpec == Spec /\ WF_vars(worker_step)

\* ---------------------------------------------------------------- vocabulary of the claims
Last(s) == s[Len(s)]
IsTerminal(ev) == ev.kind \in {"NormalExit", "ExceptionExit"}
IsProgress(ev) == ev.kind = "FileProgress"
IsBoundary(ev) == ~IsProgress(ev)

\* the worker thread is over
Ended == pc \in {"terminated", "crashed"}
\* split returned without raising
SplitReturned == pc = "returned" \/ (pc = "terminated" /\ exc = NoExc)
\* split raised
SplitRaised == pc = "raised" \/ (Ended /\ exc # NoExc)

Positions(s, P(_)) == {k \in 1..Len(s) : P(s[k])}
IsArchiveBit(ev) == ev.kind = "ArchiveBit"
IsInitialInfo(ev) == ev.kind = "InitialInfo"
IsFinishPart(ev) == ev.kind = "FinishPart"

\* ceil(size / PART_SIZE), stated without the division of the code
IsCeilOfParts(n, size) == (n - 1) * PART_SIZE < size /\ size <= n * PART_SIZE

\* StartPart(0), FinishPart(0), ..., StartPart(n-1), FinishPart(n-1), as <<kind, part>>
RECURSIVE PartBoundaries(_)
PartBoundaries(n) ==
    IF n = 0 THEN <<>>
    ELSE PartBoundaries(n - 1) \o << <<"StartPart", n - 1>>, <<"FinishPart", n - 1>> >>

\* an event as <<kind, part>>, the part of an event that has none being -1
Shape(ev) == <<ev.kind, IF ev.kind \in {"StartPart", "FinishPart"} THEN ev.part_number ELSE -1>>
Shapes(s) == [k \in 1..Len(s) |-> Shape(s[k])]

\* every FileProgress of s lies in the span of a part: the nearest boundary
\* event before it is a StartPart
ProgressInsideParts(s) ==
    \A k \in Positions(s, IsProgress) :
        \E j \in 1..(k - 1) :
            /\ s[j].kind = "StartPart"
            /\ \A m \in (j + 1)..k : IsProgress(s[m])

\* the parts 00 .. n-1 of the output directory, one after the other
RECURSIVE ConcatParts(_, _)
ConcatParts(files, n) ==
    IF n = 0 THEN <<>>
    ELSE ConcatParts(files, n - 1) \o
         (IF PartName(n - 1) \in DOMAIN files THEN files[PartName(n - 1)] ELSE <<>>)

RECURSIVE SumLens(_, _)
SumLens(files, names) ==
    IF names = {} THEN 0
    ELSE LET n == CHOOSE x \in names : TRUE
         IN Len(files[n]) + SumLens(files, names \ {n})

\* ---------------------------------------------------------------- C1
\* C1: for a successful run of the worker the events the consumer observed are
\* exactly InitialInfo, StartPart(0), FileProgress*, FinishPart(0), ...,
\* FinishPart(totalParts-1), ArchiveBitResult, NormalExit, FileProgress events
\* lying only inside the span of a part.
C1_SuccessfulSequence ==
    (observed # <<>> /\ Last(observed).kind = "NormalExit") =>
        /\ \E n \in 1..(MaxFileSize + 1) :
              /\ IsCeilOfParts(n, input_file_size)
              /\ Shapes(SelectSeq(observed, IsBoundary)) =
                    << <<"InitialInfo", -1>> >> \o PartBoundaries(n)
                       \o << <<"ArchiveBit", -1>>, <<"NormalExit", -1>> >>
        /\ ProgressInsideParts(observed)

\* what the code delivers instead: the same sequence without ArchiveBitResult
C1_SequenceOfTheCode ==
    (observed # <<>> /\ Last(observed).kind = "NormalExit") =>
        /\ \E n \in 1..(MaxFileSize + 1) :
              /\ IsCeilOfParts(n, input_file_size)
              /\ Shapes(SelectSeq(observed, IsBoundary)) =
                    << <<"InitialInfo", -1>> >> \o PartBoundaries(n)
                       \o << <<"NormalExit", -1>> >>
        /\ ProgressInsideParts(observed)

\* ---------------------------------------------------------------- C2
\* C2: when split succeeds on a file larger than PART_SIZE, the parts
\* 00 .. totalParts-1 concatenated in index order are the input byte for byte;
\* while it copies, what has been written is the prefix of the input that the
\* one forward-only cursor has read, each byte once.
C2_ConcatenationIsInput ==
    /\ (in_open /\ pc # "open_input") =>
          /\ in_pos = total_written
          /\ ConcatParts(out_files, total_parts) = SubSeq(InputContent, 1, in_pos)
    /\ SplitReturned =>
          /\ input_file_size > PART_SIZE
          /\ ConcatParts(out_files, total_parts) = InputContent

C2_Witness ==
    /\ SplitReturned
    /\ input_file_size = 2 * PART_SIZE + 1
    /\ ConcatParts(out_files, 3) = InputContent

\* ---------------------------------------------------------------- C3
\* C3: a successful split of a file larger than PART_SIZE leaves exactly
\* totalParts = ceil(fileSize / PART_SIZE) part files 00 .. totalParts-1; all but
\* the last hold PART_SIZE bytes, the last holds
\* fileSize - (totalParts-1) * PART_SIZE bytes, between 1 and PART_SIZE, and the
\* sizes add up to fileSize.
C3_PartLayout ==
    SplitReturned =>
        /\ IsCeilOfParts(total_parts, input_file_size)
        /\ total_parts >= 2
        /\ DOMAIN out_files = {PartName(k) : k \in 0..(total_parts - 1)}
        /\ Cardinality(DOMAIN out_files) = total_parts
        /\ \A k \in 0..(total_parts - 2) : Len(out_files[PartName(k)]) = PART_SIZE
        /\ LET last == Len(out_files[PartName(total_parts - 1)])
           IN /\ last = input_file_size - (total_parts - 1) * PART_SIZE
              /\ last \in 1..PART_SIZE
        /\ SumLens(out_files, DOMAIN out_files) = input_file_size

\* the concrete scenario: 2 * PART_SIZE + 1 bytes give 00, 01 and 02
C3_Witness ==
    /\ SplitReturned
    /\ input_file_size = 2 * PART_SIZE + 1
    /\ DOMAIN out_files = { <<48, 48>>, <<48, 49>>, <<48, 50>> }
    /\ Len(out_files[<<48, 48>>]) = PART_SIZE
    /\ Len(out_files[<<48, 49>>]) = PART_SIZE
    /\ Len(out_files[<<48, 50>>]) = 1

\* ---------------------------------------------------------------- C4
\* C4: a run of the worker enqueues exactly one terminal event (NormalExit or
\* ExceptionExit); it is the last event of the run and nothing follows it.
C4_OneTerminalEventLast ==
    LET T == Positions(produced, IsTerminal)
    IN /\ Cardinality(T) <= 1
       /\ T # {} => T = {Len(produced)}
       /\ T # {} => Ended
       /\ Ended => Cardinality(T) = 1

C4_Witness ==
    /\ Ended
    /\ Len(produced) > 1
    /\ IsTerminal(Last(produced))

\* ---------------------------------------------------------------- C5
\* C5: the terminal event tells how split ended: NormalExit exactly when split
\* returned, and when split raised, an ExceptionExit with the type, the message
\* and the repr of that exception; the worker does not call split again and no
\* exception leaves the thread.
C5_TerminalMatchesOutcome ==
    /\ pc # "crashed"
    /\ Ended =>
          /\ produced # <<>>
          /\ (Last(produced).kind = "NormalExit") <=> (exc = NoExc)
          /\ exc # NoExc =>
                /\ Last(produced).kind = "ExceptionExit"
                /\ Last(produced).exc_type = exc.type
                /\ Last(produced).exc_str = exc.msg
                /\ Last(produced).exc_repr = <<exc.type, exc.msg>>
          /\ Cardinality(Positions(produced, IsInitialInfo)) <= 1
    /\ pc = "raised" => ~ \E k \in 1..Len(produced) : IsTerminal(produced[k])

C5_Witness ==
    /\ Ended
    /\ exc = OSError("write")
    /\ Last(produced).kind = "ExceptionExit"
    /\ Last(produced).exc_type = "OSError"

\* ---------------------------------------------------------------- C6
\* C6: when the file is no larger than PART_SIZE (and nothing else is wrong:
\* the output directory is absent or empty, it can be created, and there is
\* room), split fails with "does not need to be split", and after the failed
\* call there is no output directory or output file that was not there before.
C6_NoSplitNeededCreatesNothing ==
    ( /\ Ended
      /\ input_kind = "file"
      /\ input_file_size <= PART_SIZE
      /\ pre_out_files = EmptyDir /\ pre_out_kind \in {"missing", "dir"}
      /\ free >= 2 * input_file_size
      /\ exc # OSError("makedirs") ) =>
        /\ exc = ValueError(MSG_UNDER_4GIB)
        /\ out_kind = pre_out_kind
        /\ out_files = pre_out_files

\* what the code does there: it fails so, reports nothing and writes no part,
\* but has made the directory
C6_NoSplitNeededOfTheCode ==
    ( /\ pc # "not_started"
      /\ input_kind = "file"
      /\ input_file_size <= PART_SIZE
      /\ pre_out_files = EmptyDir /\ pre_out_kind \in {"missing", "dir"}
      /\ free >= 2 * input_file_size
      /\ exc # OSError("makedirs") ) =>
        /\ Ended => /\ exc = ValueError(MSG_UNDER_4GIB)
                    /\ out_kind = "dir"
                    /\ Len(produced) = 1
        /\ out_files = EmptyDir

\* ---------------------------------------------------------------- C7
\* C7: when the input path names no regular file, split raises "is not a file"
\* before it creates or changes anything in the output place, and the worker
\* enqueues one ExceptionExit and nothing else.
C7_InvalidInput ==
    (pc # "not_started" /\ input_kind # "file") =>
        /\ pc \in {"run", "check_input", "raised", "terminated"}
        /\ out_kind = pre_out_kind
        /\ out_files = pre_out_files
        /\ pc \in {"raised", "terminated"} => exc = ValueError(MSG_NOT_A_FILE)
        /\ ~Ended => produced = <<>>
        /\ Ended =>
              /\ Len(produced) = 1
              /\ produced[1].kind = "ExceptionExit"
              /\ produced[1].exc_type = "ValueError"
              /\ produced[1].exc_str = MSG_NOT_A_FILE

C7_Witness ==
    /\ Ended
    /\ input_kind = "dir"
    /\ pre_out_kind = "missing" /\ out_kind = "missing"
    /\ Len(produced) = 1
    /\ produced[1].kind = "ExceptionExit"

\* ---------------------------------------------------------------- C8
\* C8, as claimed: whenever the output directory exists and is not empty, split
\* fails with "is not empty", whatever the directory holds.
C8_NonEmptyOutputAlwaysRefused ==
    (Ended /\ pre_out_kind = "dir" /\ DOMAIN pre_out_files # {}) =>
        exc = ValueError(MSG_NOT_EMPTY)

\* C8, amended: when the input path names a regular file and the output
\* directory exists and is not empty, split fails with "is not empty", whatever
\* the directory holds, and leaves the directory as it was.
C8_NonEmptyOutputRefused ==
    ( /\ pc # "not_started"
      /\ input_kind = "file"
      /\ pre_out_kind = "dir" /\ DOMAIN pre_out_files # {} ) =>
        /\ pc \in {"run", "check_input", "check_output", "raised", "terminated"}
        /\ pc \in {"raised", "terminated"} => exc = ValueError(MSG_NOT_EMPTY)
        /\ out_kind = "dir"
        /\ out_files = pre_out_files

C8_Witness ==
    /\ Ended
    /\ input_kind = "file"
    /\ pre_out_kind = "dir"
    /\ DOMAIN pre_out_files = {ForeignName}
    /\ exc = ValueError(MSG_NOT_EMPTY)

\* ---------------------------------------------------------------- C9
\* C9: once the input and the output checks have passed, split with less free
\* space than twice the file size raises "Not enough free space" with no
\* InitialInfo reported and no part file created; with at least twice the file
\* size free it is never refused for space.
C9_InsufficientSpace ==
    ( /\ pc \notin {"not_started", "run", "check_input", "check_output"}
      /\ input_kind = "file"
      /\ pre_out_files = EmptyDir /\ pre_out_kind \in {"missing", "dir"}
      /\ exc # OSError("makedirs") ) =>
        IF free < 2 * input_file_size
        THEN /\ pc \in {"check_space", "raised", "terminated"}
             /\ pc # "check_space" => exc = ValueError(MSG_NO_SPACE)
             /\ Positions(produced, IsInitialInfo) = {}
             /\ DOMAIN out_files = {}
        ELSE exc # ValueError(MSG_NO_SPACE)

C9_Witness ==
    /\ Ended
    /\ input_file_size > PART_SIZE
    /\ free = 2 * input_file_size - 1
    /\ exc = ValueError(MSG_NO_SPACE)
    /\ Len(produced) = 1

\* ---------------------------------------------------------------- C10
\* C10: a successful run with the queue reporter enqueues one ArchiveBitResult,
\* after the FinishPart of the last part and before the terminal event, with no
\* message when the attribute step succeeded and a message when it failed.
C10_ArchiveBitResultOnce ==
    (Ended /\ exc = NoExc) =>
        LET A == Positions(produced, IsArchiveBit)
        IN /\ Cardinality(A) = 1
           /\ \A a \in A :
                 /\ a = Len(produced) - 1
                 /\ \A f \in Positions(produced, IsFinishPart) : f < a
                 /\ (produced[a].error_msg = "") <=> archive_ok

\* what the code does: no ArchiveBitResult is ever enqueued
C10_NoArchiveBitEvent == Positions(produced, IsArchiveBit) = {}

\* ---------------------------------------------------------------- C11
\* every part has been reported finished
AllPartsWritten ==
    /\ total_parts > 0
    /\ Cardinality(Positions(produced, IsFinishPart)) = total_parts

\* C11: a failure of the archive-bit step never fails the split: once all parts
\* are written split returns without raising, whether the step succeeded or
\* not, and the worker ends with NormalExit.
C11_ArchiveBitNeverFails ==
    AllPartsWritten =>
        /\ pc \in {"for", "archive_bit", "returned", "terminated"}
        /\ exc = NoExc
        /\ Ended => Last(produced).kind = "NormalExit"

C11_Witness ==
    /\ Ended
    /\ AllPartsWritten
    /\ total_parts = 3
    /\ archive_ok = FALSE
    /\ Last(produced).kind = "NormalExit"

\* ---------------------------------------------------------------- C12
\* a step in which report_file_progress was called: a chunk was copied
ProgressCalled == total_written' # total_written /\ pc = "while"

\* C12: a FileProgress call is forwarded only when at least 130 ms have passed
\* since the last forwarded one (since the reporter was built, for the first);
\* a dropped call enqueues nothing and leaves the limiter's timestamp alone.  So
\* two enqueued FileProgress events are at least 130 ms apart, and calls that
\* span less than 130 ms enqueue at most one.
C12_RateLimit ==
    /\ [](/\ \A j, k \in 1..Len(forwarded_at) :
                j < k => forwarded_at[k] - forwarded_at[j] >= PROGRESS_PERIOD
          /\ \A t \in 0..MaxTime :
                Cardinality({k \in 1..Len(forwarded_at) :
                                t <= forwarded_at[k] /\ forwarded_at[k] < t + PROGRESS_PERIOD}) <= 1
          /\ Len(forwarded_at) = Cardinality(Positions(produced, IsProgress)))
    /\ [][ProgressCalled =>
            IF now' - last_file_progress_time >= PROGRESS_PERIOD
            THEN /\ produced' = Append(produced,
                                       FileProgressEvent(total_written', input_file_size))
                 /\ last_file_progress_time' = now'
            ELSE /\ produced' = produced
                 /\ queue' = queue
                 /\ last_file_progress_time' = last_file_progress_time]_vars

\* two calls 70 ms apart, the first dropped and the second, 140 ms after the
\* reporter was built, forwarded
C12_Witness ==
    /\ forwarded_at = <<14>>
    /\ total_written >= 2 * CHUNK_SIZE
    /\ Len(produced) >= 3

\* ---------------------------------------------------------------- C13
\* C13: however the worker's enqueues and the consumer's get_nowait calls
\* interleave, what the consumer has got is a prefix of what the worker has
\* put, and the queue holds the rest in order: nothing is reordered, repeated
\* or lost.  A get_nowait on the empty queue hands over no event and ends the
\* poll at once.
C13_FifoDelivery ==
    /\ [](observed \o queue = produced)
    /\ [][(cpc = "loop" /\ queue = <<>> /\ cpc' # cpc) =>
            /\ cpc' = "idle"
            /\ observed' = observed
            /\ queue' = queue]_vars
    /\ [][(observed' # observed /\ observed' # <<>>) =>
            /\ queue # <<>>
            /\ observed' = Append(observed, Head(queue))
            /\ queue' = Tail(queue)]_vars

\* the consumer is behind the worker: it has got some events, others wait
C13_Witness ==
    /\ Len(observed) >= 2
    /\ Len(queue) >= 2
    /\ cpc = "loop"
    /\ observed \o queue = produced

\* a poll that found the queue empty while the worker was still running
C13_EmptyPoll ==
    /\ cpc = "loop"
    /\ queue = <<>>
    /\ pc = "while"

\* ---------------------------------------------------------------- C14
IsPartEvent(ev) == ev.kind \in {"InitialInfo", "StartPart", "FinishPart"}
IsPrefix(a, b) == Len(a) <= Len(b) /\ SubSeq(b, 1, Len(a)) = a

\* split has reported InitialInfo: it is copying, has returned, or was aborted
\* by a failure of open, read or write
ReachedCopy ==
    \/ pc \in {"open_input", "for", "open_output", "while", "finish_part",
               "archive_bit", "returned"}
    \/ pc = "terminated" /\ exc = NoExc
    \/ pc \in {"raised", "terminated"}
       /\ exc \in {OSError("open input"), OSError("open output"),
                   OSError("read"), OSError("write")}

\* C14: in every run, finished or aborted by an I/O failure, the events of split
\* go InitialInfo, StartPart(0), FinishPart(0), StartPart(1), ... in strictly
\* increasing part index, InitialInfo exactly once and first, and every
\* FileProgress lies between the StartPart and the FinishPart of the part whose
\* bytes it counts.
C14_PartEventOrder ==
    LET B == SelectSeq(produced, IsPartEvent)
    IN /\ IsPrefix(Shapes(B), << <<"InitialInfo", -1>> >> \o PartBoundaries(Len(B)))
       /\ ReachedCopy => Cardinality(Positions(produced, IsInitialInfo)) = 1
       /\ \A k \in Positions(produced, IsProgress) :
             \E j \in 1..(k - 1) :
                /\ produced[j].kind = "StartPart"
                /\ \A m \in (j + 1)..k : IsProgress(produced[m])
                /\ produced[k].written_bytes > produced[j].part_number * PART_SIZE
                /\ produced[k].written_bytes <= (produced[j].part_number + 1) * PART_SIZE

\* a run aborted by a read failure in the second part, after a FileProgress
C14_Witness ==
    /\ Ended
    /\ exc = OSError("read")
    /\ i = 1
    /\ Positions(produced, IsProgress) # {}
    /\ Shapes(SelectSeq(produced, IsPartEvent)) =
          << <<"InitialInfo", -1>>, <<"StartPart", 0>>, <<"FinishPart", 0>>,
             <<"StartPart", 1>> >>

\* ---------------------------------------------------------------- C15
StartReported(k) ==
    \E p \in 1..Len(produced) :
        produced[p].kind = "StartPart" /\ produced[p].part_number = k
FinishReported(k) ==
    \E p \in 1..Len(produced) :
        produced[p].kind = "FinishPart" /\ produced[p].part_number = k

\* C15: StartPart(k) is reported before the file of part k is opened or
\* written; FinishPart(k) is reported only when all bytes of part k are in its
\* file and the file is closed; when the copy of a part fails, its FinishPart
\* is not reported.
C15_PartEventsBracketTheFile ==
    /\ \A k \in 0..MaxFileSize :
          /\ (out_open = PartName(k)) => StartReported(k)
          /\ (pre_out_files = EmptyDir /\ PartName(k) \in DOMAIN out_files)
                => StartReported(k)
          /\ FinishReported(k) =>
                /\ out_open # PartName(k)
                /\ PartName(k) \in DOMAIN out_files
                /\ Len(out_files[PartName(k)]) =
                      Min(PART_SIZE, input_file_size - k * PART_SIZE)
    /\ ( /\ pc \in {"raised", "terminated"}
         /\ exc \in {OSError("open output"), OSError("read"), OSError("write")} )
          => ~FinishReported(i)

\* part 0 is finished and closed, part 1 is being written
C15_Witness ==
    /\ FinishReported(0)
    /\ Len(out_files[PartName(0)]) = PART_SIZE
    /\ out_open = PartName(1)
    /\ ~FinishReported(1)
    /\ Len(out_files[PartName(1)]) > 0

\* the copy of part 1 failed after some of its bytes were written
C15_FailedPart ==
    /\ pc = "terminated"
    /\ exc = OSError("write")
    /\ i = 1
    /\ Len(out_files[PartName(1)]) > 0
    /\ ~FinishReported(1)

\* ---------------------------------------------------------------- C16
\* C16: when the poll gets a terminal event, NormalExit as well as
\* ExceptionExit, it sets split_state to None and stops draining, so that a
\* later Start can launch a new split.
C16_TerminalReleasesWorker ==
    (observed # <<>> /\ IsTerminal(Last(observed))) =>
        /\ split_state = "None"
        /\ cpc = "idle"

\* what the code does: ExceptionExit releases the worker; a NormalExitEvent is
\* taken by no case, so split_state stays set, the text never becomes "Done",
\* the loop goes on to the empty queue, and Start is ignored from then on
C16_OnlyExceptionExitReleases ==
    /\ (observed # <<>> /\ Last(observed).kind = "ExceptionExit") =>
          /\ split_state = "None"
          /\ cpc = "idle"
          /\ text_above_progressbar = <<"Failed to split">>
    /\ (observed # <<>> /\ Last(observed).kind = "NormalExit") =>
          /\ split_state = "Some"
          /\ text_above_progressbar # <<"Done">>
          /\ progressbar_progress # <<1, 1>>

\* ---------------------------------------------------------------- C17
\* C17: the engine closes the input handle and the current output handle on
\* every way out of split: when split has returned or raised, also from the
\* middle of a part, no handle is open; and at most one output handle is open
\* at a time: it is the current part's, and the next one is opened only when
\* it is closed.
C17_HandlesClosed ==
    /\ in_open => pc \in {"for", "open_output", "while", "finish_part"}
    /\ out_open # NoFile => (pc = "while" /\ in_open /\ out_open = PartName(i))
    /\ pc = "open_output" => out_open = NoFile
    /\ (SplitReturned \/ SplitRaised) => (~in_open /\ out_open = NoFile)

\* split raised from the middle of a part and both handles are closed
C17_Witness ==
    /\ pc = "raised"
    /\ exc = OSError("write")
    /\ this_part_written > 0
    /\ ~in_open
    /\ out_open = NoFile

\* ---------------------------------------------------------------- C18
\* C18: every started run of the worker ends: when each blocking file operation
\* returns, the chunk loop of a part ends (the part is complete, or the copy
\* failed), the part loop ends, and the worker enqueues its terminal event.
\* The loops are bounded by their variants: a chunk that is copied moves
\* this_part_written up, never past this_part_size, and a part that is finished
\* moves i up, never past total_parts.
C18_WorkerTerminates ==
    /\ (pc = "run") ~> (Ended /\ produced # <<>> /\ IsTerminal(Last(produced)))
    /\ (pc = "while") ~> (pc \in {"finish_part", "raised"})
    /\ (pc = "for") ~> (pc \in {"archive_bit", "raised"})
    /\ [][(pc = "while" /\ pc' = "while" /\ <<in_pos, out_files, now>>' # <<in_pos, out_files, now>>)
            => /\ this_part_written' > this_part_written
               /\ this_part_written' <= this_part_size]_vars
    /\ [][(pc = "finish_part" /\ pc' = "for") => (i' = i + 1 /\ i' <= total_parts)]_vars

\* a run of three parts has ended with its terminal event
C18_Witness ==
    /\ Ended
    /\ total_parts = 3
    /\ i = 3
    /\ total_written = input_file_size
    /\ Last(produced).kind = "NormalExit"

\* ---------------------------------------------------------------- C19
\* a worker thread exists and has not finished SplitterThread.run
WorkerRunning == pc \notin {"not_started", "terminated", "crashed"}

\* a step of the running program (not a new launch of it) that starts a worker:
\* a thread is started on a fresh queue
StartsWorker == runs' # runs

\* C19: the GUI tracks at most one worker.  While split_state is not None no
\* step starts a thread or creates a queue (the events of the tracked run are
\* only added to), and split_state changes only by being released; a worker
\* is started only from split_state = None, when no worker is running: it is
\* the first of the process, or the terminal event of the previous one has been
\* consumed.  A worker that is running is always the tracked one.
C19_AtMostOneWorker ==
    /\ [](WorkerRunning => split_state = "Some")
    /\ [][(split_state # "None" /\ pc' # "not_started")
            => /\ ~StartsWorker
               /\ split_state' \in {split_state, "None"}
               /\ IsPrefix(produced, produced')
               /\ (pc' = "run" => pc = "run")]_vars
    /\ [][StartsWorker
            => /\ split_state = "None" /\ split_state' = "Some"
               /\ ~WorkerRunning
               /\ queue' = <<>>
               /\ \/ pc = "not_started"
                  \/ /\ observed # <<>>
                     /\ IsTerminal(Last(observed))
                     /\ queue = <<>>]_vars

\* the second worker of one process is copying: the first one failed, its
\* ExceptionExit was consumed and is still on display, and a Start now is ignored
C19_Witness ==
    /\ runs = 2
    /\ split_state = "Some"
    /\ cpc = "idle"
    /\ pc = "while"
    /\ this_part_written > 0
    /\ text_above_progressbar = <<"Failed to split">>

\* ---------------------------------------------------------------- C20
\* the bytes of the input that part k holds
PartContent(k) ==
    SubSeq(InputContent, k * PART_SIZE + 1, Min((k + 1) * PART_SIZE, input_file_size))

\* the directory holds a part file that a run of split on this input created:
\* a whole part, or the beginning of one that a failed copy left behind
LeftByARun(files) ==
    \E k \in 0..(TotalParts(input_file_size) - 1) :
        /\ PartName(k) \in DOMAIN files
        /\ IsPrefix(files[PartName(k)], PartContent(k))

\* the worker was started on an output directory holding part files of an
\* earlier run of the same request
RunAfterARun == runs >= 2 /\ pc # "not_started" /\ pre_out_kind = "dir" /\ LeftByARun(pre_out_files)

\* C20: split invoked again after a run that created a part file does not get
\* past the check of the output directory: it raises the not-empty ValueError,
\* opens no file, leaves the directory as it found it, and reports no event
\* (the only event of the run is the ExceptionExit of SplitterThread.run).
C20_SecondRunRefused ==
    RunAfterARun =>
        /\ pc \in {"run", "check_input", "check_output", "raised", "terminated"}
        /\ (pc \in {"raised", "terminated"} => exc = ValueError(MSG_NOT_EMPTY))
        /\ out_kind = pre_out_kind
        /\ out_files = pre_out_files
        /\ ~in_open
        /\ out_open = NoFile
        /\ in_pos = 0
        /\ \A n \in 1..Len(produced) : produced[n].kind = "ExceptionExit"
        /\ (pc = "terminated" => Len(produced) = 1)

\* the second run has ended on the three parts that a successful run left
C20_Witness ==
    /\ RunAfterARun
    /\ pc = "terminated"
    /\ exc = ValueError(MSG_NOT_EMPTY)
    /\ TotalParts(input_file_size) = 3
    /\ ConcatParts(out_files, 3) = InputContent
    /\ produced = <<ExceptionExitEvent(exc)>>

\* the second run has ended on what a copy that failed in its second part left
C20_AfterAbortedRun ==
    /\ RunAfterARun
    /\ pc = "terminated"
    /\ exc = ValueError(MSG_NOT_EMPTY)
    /\ PartName(1) \in DOMAIN out_files
    /\ PartName(2) \notin DOMAIN out_files
    /\ Len(out_files[PartName(1)]) < Len(PartContent(1))

====
